---- MODULE Spec2Model ----
(***************************************************************************)
(* geomancy.environment.load_environment: the dotenv parser                *)
(* (parse_env_str, sub_env and their regular expressions) and the loader   *)
(* (load_env) that copies the parsed mapping into os.environ.              *)
(*                                                                         *)
(* A Python str is a sequence of one-character strings.  Positions are     *)
(* 1-based; a position p of the model is Python's index p - 1, and an end  *)
(* position is exclusive.                                                  *)
(***************************************************************************)
EXTENDS Integers, Sequences, FiniteSets, TLC

VARIABLES
    entry,       \* the function the program calls: "load_env" | "parse_env_str"
    lines,       \* history: the lines the text was written from
    file,        \* what filepath.read_text() gives: a text, or a failure
    overwrite,   \* the overwrite argument of load_env
    os_environ,  \* the process environment: name -> value
    pc,          \* "idle" | "parsing" | "loading" | "returned" | "raised"
    string,      \* parse_env_str: the string being parsed
    cursor,      \* parse_env_str: where env_re.finditer searches next
    env_vars,    \* parse_env_str: the dict built so far, in insertion order
    idx,         \* load_env: position in env_vars.items()
    count,       \* load_env: the count local
    error,       \* the exception that propagated, "none" if none
    calls,       \* history: number of load_env calls that returned
    rets,        \* history: what each call returned
    env_before,  \* history: os.environ when the current call started
    env_after,   \* history: os.environ when each call returned
    assigned,    \* history: every assignment resolved, in order
    lookups      \* history: every placeholder resolved by sub_func

vars == <<entry, lines, file, overwrite, os_environ, pc, string, cursor, env_vars, idx,
          count, error, calls, rets, env_before, env_after, assigned, lookups>>

-----------------------------------------------------------------------------
(* Character classes of the regular expressions. *)

Letters ==
    {"a","b","c","d","e","f","g","h","i","j","k","l","m","n","o","p","q","r",
     "s","t","u","v","w","x","y","z","A","B","C","D","E","F","G","H","I","J",
     "K","L","M","N","O","P","Q","R","S","T","U","V","W","X","Y","Z"}

Digits == {"0","1","2","3","4","5","6","7","8","9"}

\* The control characters a TLA+ string cannot hold, each as one character.
BEL == "<BEL>"

BS == "<BS>"

VT == "<VT>"

Spaces == {" ", "\n", "\t", "\r", "\f", VT}

NameStarts == Letters \cup {"_"}

NameChars == Letters \cup Digits \cup {"_"}

\* \s and str.strip(): the whitespace characters
IsSpace(c) == c \in Spaces

\* [a-zA-Z_]
IsNameStart(c) == c \in NameStarts

\* [a-zA-Z0-9_] and \w
IsNameChar(c) == c \in NameChars

\* ["|']
IsQuoteChar(c) == c = "\"" \/ c = "|" \/ c = "'"

\* [^'"\n]
IsPlain(c) == c # "'" /\ c # "\"" /\ c # "\n"

\* . without DOTALL
IsDot(c) == c # "\n"

MaxOf(S) == CHOOSE x \in S : \A y \in S : y <= x

MinOf(S) == CHOOSE x \in S : \A y \in S : x <= y

\* Is c of the character class cls
InClass(cls, c) ==
    CASE cls = "space" -> IsSpace(c)
      [] cls = "name"  -> IsNameChar(c)
      [] cls = "quote" -> IsQuoteChar(c)
      [] cls = "plain" -> IsPlain(c)
      [] cls = "dot"   -> IsDot(c)

\* The end of the longest run of characters of a class that starts at p.
RunEnd(t, p, cls) ==
    CHOOSE q \in p..(Len(t) + 1) :
        /\ IF q = Len(t) + 1 THEN TRUE ELSE ~InClass(cls, t[q])
        /\ \A k \in p..(q - 1) : InClass(cls, t[k])

\* c in t
HasChar(t, c) == \E k \in 1..Len(t) : t[k] = c

\* t[p:q] of Python, in the model's positions: from p up to q, q excluded
Slice(t, p, q) == SubSeq(t, p, q - 1)

\* str.strip()
strip(t) ==
    LET keep == {k \in 1..Len(t) : ~IsSpace(t[k])}
    IN  IF keep = {} THEN <<>> ELSE SubSeq(t, MinOf(keep), MaxOf(keep))

-----------------------------------------------------------------------------
(* env_re *)

\* $ with MULTILINE: at the end of the string or before a newline
AtEol(t, e) == IF e = Len(t) + 1 THEN TRUE ELSE t[e] = "\n"

\* ^ with MULTILINE: at the start of the string or after a newline
AtBol(t, s) == IF s = 1 THEN TRUE ELSE t[s - 1] = "\n"

\* \s*$ from p: the ends it can reach
EolEnds(t, p) == {e \in p..RunEnd(t, p, "space") : AtEol(t, e)}

\* [^'"\n]*\s*$ from p, the part after a closing quote: where [^'"\n]* may
\* stop so that \s*$ still matches
JunkEnds(t, p) == {j \in p..RunEnd(t, p, "plain") : EolEnds(t, j) # {}}

\* the closing quote (?P=quote) at w
ClosesAt(t, w, quote) ==
    /\ w + Len(quote) - 1 <= Len(t)
    /\ Slice(t, w, w + Len(quote)) = quote

\* \s*(?P=quote)[^'"\n]*\s*$ from the end ve of qvalue: where \s* may stop
CloseStarts(t, ve, quote) ==
    {w \in ve..RunEnd(t, ve, "space") :
        ClosesAt(t, w, quote) /\ JunkEnds(t, w + Len(quote)) # {}}

\* (?P<qvalue>.+?) from vs with DOTALL: the ends for which the rest matches
QvalueEnds(t, vs, quote) ==
    {ve \in (vs + 1)..(Len(t) + 1) : CloseStarts(t, ve, quote) # {}}

\* \s* after the opening quote that ends at qe: where qvalue may start
QvalueStarts(t, qe, quote) ==
    {vs \in qe..RunEnd(t, qe, "space") : QvalueEnds(t, vs, quote) # {}}

\* (?P<quote>["|']{1,3}) at v: the ends of the opening quote for which the
\* quoted alternative matches
QuoteEnds(t, v) ==
    {qe \in (v + 1)..MinOf({v + 3, RunEnd(t, v, "quote")}) :
        QvalueStarts(t, qe, Slice(t, v, qe)) # {}}

\* (?P<value>[^'"\n]+)\s*$ at v: the ends of the unquoted value
ValueEnds(t, v) ==
    {ve \in (v + 1)..RunEnd(t, v, "plain") : EolEnds(t, ve) # {}}

\* The quoted alternative once [^'"\n]* starts at js: the groups and the end
QuotedJunk(t, quote, vs, ve, js) ==
    [ok |-> TRUE, quote |-> quote, qvalue |-> Slice(t, vs, ve),
     value |-> <<>>, end |-> MaxOf(EolEnds(t, MaxOf(JunkEnds(t, js))))]

\* ... once qvalue is t[vs:ve]: \s* before the closing quote is greedy
QuotedClose(t, quote, vs, ve) ==
    QuotedJunk(t, quote, vs, ve, MaxOf(CloseStarts(t, ve, quote)) + Len(quote))

\* ... once qvalue starts at vs: the lazy qvalue is as short as it can be
QuotedValue(t, quote, vs) ==
    QuotedClose(t, quote, vs, MinOf(QvalueEnds(t, vs, quote)))

\* ... once the opening quote is t[v:qe]: \s* after it is greedy
QuotedOpen(t, qe, quote) ==
    QuotedValue(t, quote, MaxOf(QvalueStarts(t, qe, quote)))

\* ... given the ends qes that the opening quote can have: the longest one
QuotedIn(t, v, qes) ==
    IF qes = {} THEN [ok |-> FALSE]
    ELSE QuotedOpen(t, MaxOf(qes), Slice(t, v, MaxOf(qes)))

\* The quoted alternative at v as the backtracking matcher finds it: the
\* greedy parts as long as they can be, the lazy qvalue as short as it can.
QuotedAt(t, v) == QuotedIn(t, v, QuoteEnds(t, v))

\* The unquoted alternative given the ends ves that value can have
UnquotedIn(t, v, ves) ==
    IF ves = {} THEN [ok |-> FALSE]
    ELSE [ok |-> TRUE, quote |-> <<>>, qvalue |-> <<>>,
          value |-> Slice(t, v, MaxOf(ves)),
          end |-> MaxOf(EolEnds(t, MaxOf(ves)))]

\* The unquoted alternative at v.
UnquotedAt(t, v) == UnquotedIn(t, v, ValueEnds(t, v))

\* The first of two attempts that matches
FirstOk(first, second) == IF first.ok THEN first ELSE second

\* The value part at v: the quoted alternative is tried before the unquoted
ValueAt(t, v) == FirstOk(QuotedAt(t, v), UnquotedAt(t, v))

\* \s* after the '=' that ends at d: where the value part may start
ValueStarts(t, d) == {v \in d..RunEnd(t, d, "space") : ValueAt(t, v).ok}

\* The name t[a:b] and the '=' at c, if they are there
NameGroups(t, a, b, c) ==
    [ok   |-> /\ a <= Len(t)
              /\ IsNameStart(t[a])
              /\ c <= Len(t)
              /\ t[c] = "=",
     name |-> Slice(t, a, b),
     eq   |-> c]

\* [a-zA-Z_]+[a-zA-Z0-9_]* from a, then \s*
NameFrom(t, a, b) == NameGroups(t, a, b, RunEnd(t, b, "space"))

\* Where env_re places the name and the '=' for a match that starts at s:
\* ^\s*(?P<name>[a-zA-Z_]+[a-zA-Z0-9_]*)\s*=
NameAt(t, s) ==
    NameFrom(t, RunEnd(t, s, "space"),
             RunEnd(t, RunEnd(t, s, "space"), "name"))

\* The match with its name, given the starts vs that the value part can have:
\* \s* after the '=' takes as much as it can
MatchValue(t, name, vs) ==
    IF vs = {} THEN [ok |-> FALSE]
    ELSE [name |-> name] @@ ValueAt(t, MaxOf(vs))

\* The match given the name and the '=' that NameAt found
MatchName(t, n) ==
    IF n.ok THEN MatchValue(t, n.name, ValueStarts(t, n.eq + 1))
    ELSE [ok |-> FALSE]

\* The match of env_re at s, if there is one
env_re(t, s) ==
    IF AtBol(t, s) THEN MatchName(t, NameAt(t, s)) ELSE [ok |-> FALSE]

RECURSIVE finditer(_, _)
\* env_re.finditer: the next match at or after position from, the leftmost
finditer(t, from) ==
    IF from > Len(t) THEN [ok |-> FALSE]
    ELSE FirstOk(env_re(t, from), finditer(t, from + 1))

\* env_re.finditer: is there a match at or after position from
HasMatch(t, from) == finditer(t, from).ok

-----------------------------------------------------------------------------
(* comment_re, escaped_quote_re, codecs.decode(value, "unicode_escape") *)

\* #.+$ at h: '#', then at least one character other than a newline, up to
\* the end of the string (or to a newline that ends the string)
HashTail(t, h) ==
    /\ h <= Len(t)
    /\ t[h] = "#"
    /\ LET e == RunEnd(t, h + 1, "dot")
       IN  e > h + 1 /\ (e = Len(t) + 1 \/ e = Len(t))

\* (^|\s+)(#.+)$ matches at p
comment_re(t, p) ==
    \/ p = 1 /\ HashTail(t, 1)
    \/ IsSpace(t[p]) /\ HashTail(t, RunEnd(t, p, "space"))

\* Where the '#' of the comment_re match at p stands
HashOf(t, p) ==
    IF p = 1 /\ HashTail(t, 1) THEN 1 ELSE RunEnd(t, p, "space")

\* t without its part from the '#' at h up to the end of that line
CutFrom(t, h) ==
    Slice(t, 1, h) \o Slice(t, RunEnd(t, h + 1, "dot"), Len(t) + 1)

\* t without group 2 of the leftmost of the matches ps
CutFirst(t, ps) == IF ps = {} THEN t ELSE CutFrom(t, HashOf(t, MinOf(ps)))

\* comment_re.sub(r"\1", value): the leftmost match loses its group 2
comment_re_sub(t) == CutFirst(t, {p \in 1..Len(t) : comment_re(t, p)})

RECURSIVE escaped_quote_re_sub(_)
\* escaped_quote_re.sub(r"\1", value): \' -> ' and \" -> "
escaped_quote_re_sub(t) ==
    IF t = <<>> THEN <<>>
    ELSE IF Len(t) >= 2 /\ t[1] = "\\" /\ t[2] \in {"'", "\""}
         THEN <<t[2]>> \o escaped_quote_re_sub(SubSeq(t, 3, Len(t)))
         ELSE <<t[1]>> \o escaped_quote_re_sub(Tail(t))

\* The one-character escapes of unicode_escape.
SimpleEscapes == {"\\", "'", "\"", "a", "b", "f", "n", "r", "t", "v"}

EscapeChar(c) ==
    CASE c = "\\" -> "\\"
      [] c = "'"  -> "'"
      [] c = "\"" -> "\""
      [] c = "a"  -> BEL
      [] c = "b"  -> BS
      [] c = "f"  -> "\f"
      [] c = "n"  -> "\n"
      [] c = "r"  -> "\r"
      [] c = "t"  -> "\t"
      [] c = "v"  -> VT

\* The escapes that take digits or a name (\ooo, \xhh, \uhhhh, \Uhhhhhhhh,
\* \N{...}).  unicode_escape does not decode them; no text of the model holds
\* a backslash before one of these characters.
NumericEscapes == {"0","1","2","3","4","5","6","7","x","u","U","N"}

RECURSIVE unicode_escape(_)
\* codecs.decode(value, "unicode_escape"): ok is FALSE where Python raises
\* UnicodeDecodeError ("\ at end of string").  A backslash before a newline
\* is dropped with the newline; an unknown escape is kept as it is.
unicode_escape(t) ==
    IF t = <<>> THEN [ok |-> TRUE, out |-> <<>>]
    ELSE IF t[1] # "\\"
         THEN LET r == unicode_escape(Tail(t))
              IN  [ok |-> r.ok, out |-> <<t[1]>> \o r.out]
    ELSE IF Len(t) = 1 THEN [ok |-> FALSE, out |-> <<>>]
    ELSE LET r == unicode_escape(SubSeq(t, 3, Len(t)))
         IN  [ok  |-> r.ok,
              out |-> IF t[2] = "\n" THEN r.out
                      ELSE IF t[2] \in SimpleEscapes
                           THEN <<EscapeChar(t[2])>> \o r.out
                           ELSE <<t[1], t[2]>> \o r.out]

-----------------------------------------------------------------------------
(* sub_re and sub_env *)

\* The name t[a:b] and the '}' at c, after the '{' at o, if they are there
SubGroups(t, o, a, b, c) ==
    [ok   |-> /\ o <= Len(t)
              /\ t[o] = "{"
              /\ a <= Len(t)
              /\ IsNameStart(t[a])
              /\ c <= Len(t)
              /\ t[c] = "}",
     name |-> Slice(t, a, b),
     end  |-> c + 1]

\* [A-Za-z_]\w* from a, then \s*
SubName(t, o, a, b) == SubGroups(t, o, a, b, RunEnd(t, b, "space"))

\* \s* after the '{' at o
SubOpen(t, o, a) == SubName(t, o, a, RunEnd(t, a, "name"))

\* [$]?{ with the '{' expected at o
SubFrom(t, o) == SubOpen(t, o, RunEnd(t, MinOf({o + 1, Len(t) + 1}), "space"))

\* Where sub_re puts the name for a match that starts at p:
\* [$]?{\s*(?P<name>[A-Za-z_]\w*)\s*}
sub_re(t, p) == SubFrom(t, IF t[p] = "$" THEN p + 1 ELSE p)

RECURSIVE Placeholders(_, _)
\* The names from position p on, m being what sub_re finds at p
PlaceholdersAt(t, p, m) ==
    IF m.ok THEN <<m.name>> \o Placeholders(t, m.end)
    ELSE Placeholders(t, p + 1)

\* The names sub_re.sub hands to sub_func, left to right, from position p
Placeholders(t, p) ==
    IF p > Len(t) THEN <<>> ELSE PlaceholdersAt(t, p, sub_re(t, p))

RECURSIVE SubAll(_, _, _)
\* The text from position p on, m being what sub_re finds at p
SubAllAt(t, p, repl, m) ==
    IF m.ok THEN repl[m.name] \o SubAll(t, m.end, repl)
    ELSE <<t[p]>> \o SubAll(t, p + 1, repl)

\* sub_re.sub(sub_func, string) from position p; repl[name] is what sub_func
\* returns for name.  The replacement is not scanned again.
SubAll(t, p, repl) ==
    IF p > Len(t) THEN <<>> ELSE SubAllAt(t, p, repl, sub_re(t, p))

\* A dict is a sequence of <<key, value>> pairs in insertion order.
Keys(d) == {d[k][1] : k \in 1..Len(d)}

Get(d, key) == d[CHOOSE k \in 1..Len(d) : d[k][1] = key][2]

\* d[key] = value: an existing key keeps its place
Put(d, key, value) ==
    IF key \in Keys(d)
    THEN [k \in 1..Len(d) |-> IF d[k][1] = key THEN <<key, value>> ELSE d[k]]
    ELSE Append(d, <<key, value>>)

StringParam == <<"s","t","r","i","n","g">>

MissingDefaultParam ==
    <<"m","i","s","s","i","n","g","_","d","e","f","a","u","l","t">>

\* sub_env(value, **env_vars): a key of env_vars that is the name of the
\* first parameter is a second value for it, and the call raises TypeError
BindRaises(d) == StringParam \in Keys(d)

\* sub_env(value, **env_vars): the missing_default parameter
BoundMissingDefault(d) ==
    IF MissingDefaultParam \in Keys(d) THEN Get(d, MissingDefaultParam) ELSE <<>>

\* sub_env(value, **env_vars): kwargs, the keys that are no parameter
BoundKwargs(d) ==
    SelectSeq(d, LAMBDA kv : kv[1] # MissingDefaultParam)

\* sub_func: os.environ first, then kwargs, then missing_default
sub_func(name, environ, kwargs, missing_default) ==
    IF name \in DOMAIN environ THEN environ[name]
    ELSE IF name \in Keys(kwargs) THEN Get(kwargs, name)
    ELSE missing_default

\* The elements of a sequence
Range(s) == {s[k] : k \in 1..Len(s)}

\* sub_env(value, **d) under os.environ = environ, for a call that binds
sub_env(t, environ, d) ==
    SubAll(t, 1,
           [n \in Range(Placeholders(t, 1)) |->
               sub_func(n, environ, BoundKwargs(d), BoundMissingDefault(d))])

-----------------------------------------------------------------------------
(* parse_env_str: the body of the loop over env_re.finditer(string) *)

\* Which branch of the if the match takes
Branch(m) ==
    IF m.value # <<>> THEN "value"
    ELSE IF m.qvalue # <<>> THEN "qvalue"
    ELSE "else"

\* A double-quoted value, dec being what unicode_escape made of it
PreparedDouble(dec, d) ==
    [error |-> IF ~dec.ok THEN "UnicodeDecodeError"
               ELSE IF BindRaises(d) THEN "TypeError"
               ELSE "none",
     subst |-> TRUE,
     text  |-> dec.out]

\* A quoted value, unq being qvalue after escaped_quote_re
PreparedQuoted(quote, unq, d) ==
    IF HasChar(quote, "\"")
    THEN PreparedDouble(unicode_escape(unq), d)
    ELSE [error |-> "none", subst |-> FALSE, text |-> unq]

\* The value before substitution and the exception raised on the way, if any
\* (strip and comment_re for the unquoted branch, escaped_quote_re and, for a
\* quote with a '"' in it, unicode_escape for the quoted one).
Prepared(m, d) ==
    IF Branch(m) = "value"
    THEN [error |-> IF BindRaises(d) THEN "TypeError" ELSE "none",
          subst |-> TRUE,
          text  |-> comment_re_sub(strip(m.value))]
    ELSE IF Branch(m) = "qvalue"
    THEN PreparedQuoted(m.quote, escaped_quote_re_sub(m.qvalue), d)
    ELSE [error |-> "NotImplementedError", subst |-> FALSE, text |-> <<>>]

\* value.strip() if strip_values (it is True) in the unquoted branch
StripValue(branch, t) == IF branch = "value" THEN strip(t) ELSE t

\* The value stored in env_vars[name], pre being the value before
\* substitution
Resolved(branch, pre, environ, d) ==
    IF pre.subst THEN StripValue(branch, sub_env(pre.text, environ, d))
    ELSE pre.text

-----------------------------------------------------------------------------
(* The texts the model parses: lines "NAME=<quote><body><quote><tail>". *)

\* One line of a dotenv text, fragments joined
Render(l) == l.name \o <<"=">> \o l.quote \o l.body \o l.quote \o l.tail

RECURSIVE Join(_)
\* The text of a sequence of lines, a newline between two lines
Join(ls) ==
    IF ls = <<>> THEN <<>>
    ELSE IF Len(ls) = 1 THEN Render(ls[1])
    ELSE Render(ls[1]) \o <<"\n">> \o Join(Tail(ls))

RECURSIVE Flatten(_)
Flatten(ss) == IF ss = <<>> THEN <<>> ELSE ss[1] \o Flatten(Tail(ss))

\* The sequences of 1..n elements of S
SeqsUpTo(S, n) == UNION {[1..k -> S] : k \in 1..n}

Line(name, quote, body, tail) ==
    [name |-> name, quote |-> quote, body |-> body, tail |-> tail]

NameA == <<"A">>

NameB == <<"B">>

\* The process environments of the model: A and B, each unset or set to "e"
Environs == UNION {[D -> {<<"e">>}] : D \in SUBSET {NameA, NameB}}

\* Number of lines of a file given to load_env
MaxLines == 2

\* Number of load_env calls on the file
MaxCalls == 2

\* The lines of the files given to load_env: A=y, A={A}z, B=y, B={A}z,
\* B='{A}z', string=y and B="${B}\" (a backslash before the closing quote)
LoadLines ==
    {Line(n, <<>>, b, <<>>) :
        n \in {NameA, NameB}, b \in {<<"y">>, <<"{","A","}","z">>}}
    \cup {Line(NameB, <<"'">>, <<"{","A","}","z">>, <<>>),
          Line(StringParam, <<>>, <<"y">>, <<>>),
          Line(NameB, <<"\"">>, <<"$","{","B","}","\\">>, <<>>)}

\* Number of lines of a text given to parse_env_str
MaxParseLines == 2

\* The tails of an unquoted line: none, " #c", " #'" and " \#c"
Tails == {<<>>, <<" ","#","c">>, <<" ","#","'">>, <<" ","\\","#","c">>}

\* The lines of the texts given to parse_env_str: unquoted lines with and
\* without a trailing comment, lines with nothing after the '=',
\* double-quoted lines, and the names of sub_env's parameters
ParseLines ==
    {Line(n, <<>>, b, t) :
        n \in {NameA, NameB},
        b \in {<<"y">>, <<"{","A","}","z">>, <<"$","{","B","}">>},
        t \in Tails}
    \cup {Line(n, <<>>, <<>>, <<>>) : n \in {NameA, NameB}}
    \cup {Line(n, <<"\"">>, b, <<>>) :
            n \in {NameA, NameB},
            b \in {<<"{","A","}","z">>, <<"y","\\">>}}
    \cup {Line(n, <<>>, <<"y">>, <<>>) : n \in {StringParam, MissingDefaultParam}}

\* Number of fragments of a single-quoted value
MaxBody == 2

\* The fragments of a single-quoted value: y, a space, {B}, \', \" and a
\* line break
QuoteFragments ==
    {<<"y">>, <<" ">>, <<"{","B","}">>, <<"\\","'">>, <<"\\","\"">>, <<"\n">>}

\* The single-quoted lines: A=, one or three ', the value, the same quote
QuoteLines ==
    {Line(NameA, q, Flatten(fs), <<>>) :
        q \in {<<"'">>, <<"'","'","'">>},
        fs \in SeqsUpTo(QuoteFragments, MaxBody)}

-----------------------------------------------------------------------------
(* The state machine *)

\* The state before the entry function is called
Start(e, ls, f, ow, env) ==
    /\ entry = e
    /\ lines = ls
    /\ file = f
    /\ overwrite = ow
    /\ os_environ = env
    /\ pc = IF e = "load_env" THEN "idle" ELSE "parsing"
    /\ string = IF e = "load_env" THEN <<>> ELSE f.text
    /\ cursor = 1
    /\ env_vars = <<>>
    /\ idx = 1
    /\ count = 0
    /\ error = "none"
    /\ calls = 0
    /\ rets = <<>>
    /\ env_before = env
    /\ env_after = <<>>
    /\ assigned = <<>>
    /\ lookups = {}

TextFile(ls) == [kind |-> "text", text |-> Join(ls)]

\* load_env on a file of LoadLines, on a missing file, or on one that
\* read_text cannot read (a directory, a file without read permission)
Init ==
    \E ow \in BOOLEAN, env \in Environs :
        \/ \E ls \in SeqsUpTo(LoadLines, MaxLines) :
              Start("load_env", ls, TextFile(ls), ow, env)
        \/ \E k \in {"missing", "unreadable"} :
              Start("load_env", <<>>, [kind |-> k, text |-> <<>>], ow, env)

\* load_env up to the call of parse_env_str: read_text returns the text
LoadEnvRead ==
    /\ pc = "idle"
    /\ calls < MaxCalls
    /\ file.kind = "text"
    /\ pc' = "parsing"
    /\ string' = file.text
    /\ cursor' = 1
    /\ env_vars' = <<>>
    /\ assigned' = <<>>
    /\ env_before' = os_environ
    /\ UNCHANGED <<entry, lines, file, overwrite, os_environ, idx, count,
                   error, calls, rets, env_after, lookups>>

\* load_env without its except clause: FileNotFoundError leaves load_env
LoadEnvNotFound_Uncaught ==
    /\ pc = "idle"
    /\ calls < MaxCalls
    /\ file.kind = "missing"
    /\ pc' = "raised"
    /\ error' = "FileNotFoundError"
    /\ env_before' = os_environ
    /\ UNCHANGED <<entry, lines, file, overwrite, os_environ, string, cursor,
                   env_vars, idx, count, calls, rets, env_after, assigned,
                   lookups>>

\* load_env: read_text raises FileNotFoundError, which is caught: return 0
LoadEnvNotFound ==
    /\ pc = "idle"
    /\ calls < MaxCalls
    /\ file.kind = "missing"
    /\ calls' = calls + 1
    /\ rets' = Append(rets, 0)
    /\ env_before' = os_environ
    /\ env_after' = Append(env_after, os_environ)
    /\ UNCHANGED <<entry, lines, file, overwrite, os_environ, pc, string,
                   cursor, env_vars, idx, count, error, assigned, lookups>>

\* load_env: read_text raises another OSError, which no except clause names
LoadEnvReadError ==
    /\ pc = "idle"
    /\ calls < MaxCalls
    /\ file.kind = "unreadable"
    /\ pc' = "raised"
    /\ error' = "OSError"
    /\ env_before' = os_environ
    /\ UNCHANGED <<entry, lines, file, overwrite, os_environ, string, cursor,
                   env_vars, idx, count, calls, rets, env_after, assigned,
                   lookups>>

\* What sub_func returned for each of the placeholders ns
LookupsFor(ns, environ, d) ==
    {[name |-> ns[k],
      repl |-> sub_func(ns[k], environ, BoundKwargs(d), BoundMissingDefault(d)),
      at   |-> Len(assigned),
      call |-> calls + 1] : k \in 1..Len(ns)}

\* What sub_func returned for each placeholder of this match
LookupsOf(pre, environ, d) ==
    IF pre.subst THEN LookupsFor(Placeholders(pre.text, 1), environ, d) ELSE {}

\* parse_env_str: one pass of the loop over env_re.finditer(string); an
\* exception of the body leaves parse_env_str and its caller
ParseMatch ==
    /\ pc = "parsing"
    /\ \E m \in {finditer(string, cursor)} :
          /\ m.ok
          /\ \E pre \in {Prepared(m, env_vars)} :
                IF pre.error # "none"
                THEN /\ pc' = "raised"
                     /\ error' = pre.error
                     /\ UNCHANGED <<cursor, env_vars, assigned, lookups>>
                ELSE /\ \E val \in {Resolved(Branch(m), pre, os_environ, env_vars)} :
                           /\ env_vars' = Put(env_vars, m.name, val)
                           /\ assigned' = Append(assigned, <<m.name, val>>)
                     /\ lookups' = lookups \cup LookupsOf(pre, os_environ, env_vars)
                     /\ cursor' = m.end
                     /\ UNCHANGED <<pc, error>>
    /\ UNCHANGED <<entry, lines, file, overwrite, os_environ, string, idx,
                   count, calls, rets, env_before, env_after>>

\* parse_env_str: finditer is exhausted, return env_vars (to load_env, which
\* starts its loop over env_vars.items() with count = 0)
ParseReturn ==
    /\ pc = "parsing"
    /\ ~HasMatch(string, cursor)
    /\ pc' = IF entry = "load_env" THEN "loading" ELSE "returned"
    /\ idx' = 1
    /\ count' = 0
    /\ UNCHANGED <<entry, lines, file, overwrite, os_environ, string, cursor,
                   env_vars, error, calls, rets, env_before, env_after,
                   assigned, lookups>>

\* load_env with the test of overwrite inverted: name in os.environ and
\* overwrite
ShouldSkip_Inverted(name, environ, ow) == name \in DOMAIN environ /\ ow

\* load_env: name in os.environ and not overwrite
ShouldSkip(name, environ, ow) == name \in DOMAIN environ /\ ~ow

\* load_env with os.environ[name] += value for a name that is set
SetEnv_Appended(environ, name, value) ==
    IF name \in DOMAIN environ
    THEN (name :> (environ[name] \o value)) @@ environ
    ELSE (name :> value) @@ environ

\* load_env: os.environ[name] = value
SetEnv(environ, name, value) == (name :> value) @@ environ

\* load_env with count += 1 ahead of the continue: a skipped variable counts
LoadSkip_Counted ==
    /\ pc = "loading"
    /\ idx <= Len(env_vars)
    /\ ShouldSkip(env_vars[idx][1], os_environ, overwrite)
    /\ idx' = idx + 1
    /\ count' = count + 1
    /\ UNCHANGED <<entry, lines, file, overwrite, os_environ, pc, string,
                   cursor, env_vars, error, calls, rets, env_before,
                   env_after, assigned, lookups>>

\* load_env: a pass of the loop that takes the continue
LoadSkip ==
    /\ pc = "loading"
    /\ idx <= Len(env_vars)
    /\ ShouldSkip(env_vars[idx][1], os_environ, overwrite)
    /\ idx' = idx + 1
    /\ UNCHANGED <<entry, lines, file, overwrite, os_environ, pc, string,
                   cursor, env_vars, count, error, calls, rets, env_before,
                   env_after, assigned, lookups>>

\* load_env: a pass of the loop that sets the variable and counts it
LoadSet ==
    /\ pc = "loading"
    /\ idx <= Len(env_vars)
    /\ ~ShouldSkip(env_vars[idx][1], os_environ, overwrite)
    /\ os_environ' = SetEnv(os_environ, env_vars[idx][1], env_vars[idx][2])
    /\ count' = count + 1
    /\ idx' = idx + 1
    /\ UNCHANGED <<entry, lines, file, overwrite, pc, string, cursor,
                   env_vars, error, calls, rets, env_before, env_after,
                   assigned, lookups>>

\* load_env: the loop is over, return count
LoadReturn ==
    /\ pc = "loading"
    /\ idx > Len(env_vars)
    /\ pc' = "idle"
    /\ calls' = calls + 1
    /\ rets' = Append(rets, count)
    /\ env_after' = Append(env_after, os_environ)
    /\ UNCHANGED <<entry, lines, file, overwrite, os_environ, string, cursor,
                   env_vars, idx, count, error, env_before, assigned, lookups>>

\* parse_env_str on one or two of ParseLines
InitParse ==
    \E env \in Environs, ls \in SeqsUpTo(ParseLines, MaxParseLines) :
        Start("parse_env_str", ls, TextFile(ls), FALSE, env)

\* parse_env_str on a single-quoted line, alone or after the line B=y, with
\* B set or not in the process environment
InitQuote ==
    \E env \in {e \in Environs : NameA \notin DOMAIN e},
       pre \in {<<>>, <<Line(NameB, <<>>, <<"y">>, <<>>)>>},
       l \in QuoteLines :
        Start("parse_env_str", pre \o <<l>>, TextFile(pre \o <<l>>), FALSE, env)

Next ==
    \/ LoadEnvRead
    \/ LoadEnvNotFound
    \/ LoadEnvReadError
    \/ ParseMatch
    \/ ParseReturn
    \/ LoadSkip
    \/ LoadSet
    \/ LoadReturn

Spec == Init /\ [][Next]_vars

\* The program calls parse_env_str itself
NextParse ==
    \/ ParseMatch
    \/ ParseReturn

SpecParse == InitParse /\ [][NextParse]_vars

SpecQuote == InitQuote /\ [][NextParse]_vars

-----------------------------------------------------------------------------
(* Properties *)

\* The assignments to name among the first k resolved
EarlierOf(name, k) == {i \in 1..k : assigned[i][1] = name}

\* What a placeholder for name, resolved after k assignments, stands for
\* when the file decides: the latest earlier value, or the empty default
FileValue(name, k) ==
    IF EarlierOf(name, k) = {} THEN <<>>
    ELSE assigned[MaxOf(EarlierOf(name, k))][2]

\* The last line the text was written from
LastLine == lines[Len(lines)]

\* C1: every placeholder resolved by parse_env_str is replaced by the process
\* environment's value for its name if the name is set there, otherwise by
\* the value resolved for the name earlier in the file, otherwise by the
\* empty string.
C1_SubstitutionPrecedence ==
    \A l \in lookups :
        l.repl = IF l.name \in DOMAIN os_environ THEN os_environ[l.name]
                 ELSE FileValue(l.name, l.at)

\* C2: assignments are resolved in file order: a placeholder for a name that
\* the process environment does not set sees the latest assignment that
\* precedes it (the empty default if there is none), and the mapping returned
\* holds the last assignment of each name.
C2_SequentialResolution ==
    /\ \A l \in lookups :
          l.name \notin DOMAIN os_environ => l.repl = FileValue(l.name, l.at)
    /\ pc = "returned" =>
          /\ Keys(env_vars) = {assigned[k][1] : k \in 1..Len(assigned)}
          /\ \A n \in Keys(env_vars) :
                Get(env_vars, n) = FileValue(n, Len(assigned))

\* The names load_env sets: every parsed name with overwrite, the parsed
\* names absent from the environment before the call without it
NamesToSet ==
    IF overwrite THEN Keys(env_vars) ELSE Keys(env_vars) \ DOMAIN env_before

\* C3: load_env without overwrite never changes a variable that was in the
\* process environment before the call; a call that returns has set exactly
\* the parsed names that were absent (every parsed name with overwrite), each
\* to its parsed value, has left every other variable as it was, and returns
\* the number of variables it set (with overwrite, the number of distinct
\* parsed names).
C3_LoadFrame ==
    /\ ~overwrite =>
          \A n \in DOMAIN env_before :
              n \in DOMAIN os_environ /\ os_environ[n] = env_before[n]
    /\ (pc = "idle" /\ calls >= 1 /\ file.kind = "text") =>
          /\ DOMAIN os_environ = DOMAIN env_before \cup NamesToSet
          /\ \A n \in DOMAIN os_environ :
                os_environ[n] = IF n \in NamesToSet THEN Get(env_vars, n)
                                ELSE env_before[n]
          /\ rets[calls] = Cardinality(NamesToSet)
          /\ overwrite =>
                rets[calls] = Cardinality({assigned[k][1] : k \in 1..Len(assigned)})

\* C3 witness: a call without overwrite has returned; the file assigns a name
\* that was set before the call, to another value, and a name that was not.
C3_Witness ==
    /\ pc = "idle"
    /\ calls >= 1
    /\ file.kind = "text"
    /\ ~overwrite
    /\ \E n \in Keys(env_vars) \cap DOMAIN env_before :
          Get(env_vars, n) # env_before[n]
    /\ Keys(env_vars) \ DOMAIN env_before # {}
    /\ rets[calls] > 0

\* C4: without overwrite, the environment after a second call of load_env on
\* the same file is the environment after the first call, and the second call
\* returns 0.
C4_IdempotentWithoutOverwrite ==
    ~overwrite =>
        \A k \in 2..calls : env_after[k] = env_after[k - 1] /\ rets[k] = 0

\* C4 witness: two calls without overwrite have returned and the first one
\* set a variable.
C4_Witness == ~overwrite /\ calls >= 2 /\ rets[1] > 0

\* C5: parse_env_str raises no error to its caller, whatever the text.
C5_NoErrorRaised == pc # "raised"

\* The text between the quotes without the whitespace at its two ends (its
\* last character if it is whitespace only), each escaped quote without its
\* backslash
TrimmedLiteral(body) ==
    IF \A k \in 1..Len(body) : IsSpace(body[k])
    THEN <<body[Len(body)]>>
    ELSE escaped_quote_re_sub(strip(body))

\* C6: a single-quoted value is never substituted: it is the text between
\* the quotes (which env_re captures without the whitespace next to the quote
\* marks), in which the only change is that an escaped quote loses its
\* backslash.
C6_SingleQuotedLiteral ==
    pc = "returned" =>
        /\ LastLine.name \in Keys(env_vars)
        /\ Get(env_vars, LastLine.name) = TrimmedLiteral(LastLine.body)

\* A tail that is a comment: whitespace, then '#', then the comment
IsCommentTail(t) == Len(t) >= 3 /\ t[1] = " " /\ t[2] = "#"

\* C7: for the one-line text NAME=y<tail>, a tail that is a trailing comment
\* is removed, whatever characters the comment holds, so that NAME resolves
\* to y; a tail whose '#' is escaped stays in the value with its '#'.
C7_TrailingCommentRemoved ==
    (/\ pc = "returned"
     /\ Len(lines) = 1
     /\ lines[1].quote = <<>>
     /\ lines[1].body = <<"y">>
     /\ lines[1].tail # <<>>) =>
        /\ Keys(env_vars) = {lines[1].name}
        /\ IF IsCommentTail(lines[1].tail)
           THEN Get(env_vars, lines[1].name) = <<"y">>
           ELSE HasChar(Get(env_vars, lines[1].name), "#")

C9_ValueFromItsOwnLine ==
    (/\ pc = "returned"
     /\ Len(lines) = 2
     /\ lines[1].quote = <<>> /\ lines[1].body = <<>> /\ lines[1].tail = <<>>
     /\ lines[2].quote = <<>> /\ lines[2].body = <<"y">> /\ lines[2].tail = <<>>) =>
        env_vars = <<<<lines[2].name, <<"y">>>>>>

\* C10 as stated: with overwrite, the environment after a second call of
\* load_env on the same file is the environment after the first call.
C10_IdempotentWithOverwrite ==
    overwrite => \A k \in 2..calls : env_after[k] = env_after[k - 1]

\* No placeholder of the file names a variable that the file assigns
NoReferenceToAssigned == \A l \in lookups : l.name \notin Keys(env_vars)

\* C10 amended: with overwrite, the environment after a second call of
\* load_env on the same file is the environment after the first call,
\* provided no placeholder of the file names a variable that the file itself
\* assigns.
C10_IdempotentWithoutSelfReference ==
    (overwrite /\ pc = "idle" /\ NoReferenceToAssigned) =>
        \A k \in 2..calls : env_after[k] = env_after[k - 1]

\* C10 witness: two calls with overwrite have returned for a file that
\* resolves a placeholder from the environment, names no variable it assigns,
\* and assigns a variable that was set before the first call.
C10_Witness ==
    /\ overwrite
    /\ pc = "idle"
    /\ calls >= 2
    /\ NoReferenceToAssigned
    /\ lookups # {}
    /\ \E l \in lookups : l.name \in DOMAIN os_environ
    /\ rets[1] > 0
    /\ \E n \in Keys(env_vars) : n \in DOMAIN env_before

====
